---- MODULE Spec2Model ----
(***************************************************************************)
(* A model of app.py (Piercing Shop Inventory & Wishlist): the label       *)
(* normaliser, the variant-axis builder, the price lookup and the          *)
(* session's wishlist.                                                     *)
(*                                                                         *)
(* Python strings are sequences of one-character strings, so that strip,   *)
(* lower, the "mm" regular expression and string comparison are computed   *)
(* and not assumed.  JSON scalars are tagged records (None, Str, Num).     *)
(***************************************************************************)
EXTENDS Integers, Sequences, FiniteSets, TLC

VARIABLES
    products,       \* the catalogue: data["products"], read-only once loaded
    page,           \* st.session_state["page"]
    selected_sku,   \* st.session_state["selected_sku"]
    widget,         \* st.session_state["sel_<sku>_<label>"], by <<sku, label>>
    wishlist,       \* st.session_state["wishlist"]
    axes,           \* render_product_page: axes of the product on display
    selections,     \* render_product_page: selections of the last run
    variant_image,  \* render_product_page: variant_preview_images[0] or None
    price_info,     \* render_product_page: price_info of the last run
    last,           \* the handler that ran last
    nav_count,      \* top_nav: the count on the Wishlist button of the last run
    clicked,        \* render_wishlist: i of the Remove button pressed, or -1
    adds,           \* how often add_to_wishlist has run
    removes         \* how often line 436 has run

vars == <<products, page, selected_sku, widget, wishlist, axes, selections,
          variant_image, price_info, last, nav_count, clicked, adds, removes>>

(***************************************************************************)
(* Characters and strings                                                  *)
(***************************************************************************)

\* The printable ASCII characters in code-point order, 32 (space) to 126.
\* The quote, the backslash and the backquote (34, 92, 96) only hold their
\* places: no string of the model contains them.
Ascii ==
    <<" ", "!", "<34>", "#", "$", "%", "&", "'", "(", ")", "*", "+", ",", "-",
      ".", "/", "0", "1", "2", "3", "4", "5", "6", "7", "8", "9", ":", ";",
      "<", "=", ">", "?", "@", "A", "B", "C", "D", "E", "F", "G", "H", "I",
      "J", "K", "L", "M", "N", "O", "P", "Q", "R", "S", "T", "U", "V", "W",
      "X", "Y", "Z", "[", "<92>", "]", "^", "_", "<96>", "a", "b", "c", "d", "e",
      "f", "g", "h", "i", "j", "k", "l", "m", "n", "o", "p", "q", "r", "s",
      "t", "u", "v", "w", "x", "y", "z", "{", "|", "}", "~">>

Chars == {Ascii[i] : i \in 1..Len(Ascii)} \cup {"\t"}

\* ord(c); a tab is the one character used below 32.
OrdTable ==
    [c \in Chars |->
        IF c = "\t" THEN 9
        ELSE 31 + (CHOOSE i \in 1..Len(Ascii) : Ascii[i] = c)]

Ord(c) == OrdTable[c]

\* str.isspace for one character.
IsSpace(c) == c \in {" ", "\t"}

\* \d of the regular expression.
IsDigit(c) == c \in {"0", "1", "2", "3", "4", "5", "6", "7", "8", "9"}

\* str.lower for one character: A-Z (65..90) move up by 32.
LowerTable ==
    [c \in Chars |->
        IF Ord(c) >= 65 /\ Ord(c) <= 90 THEN Ascii[Ord(c) + 32 - 31] ELSE c]

LowerChar(c) == LowerTable[c]

\* str.lower
Lower(s) == [i \in 1..Len(s) |-> LowerChar(s[i])]

\* str.strip: leading and trailing whitespace removed.
RECURSIVE LStrip(_)
LStrip(s) ==
    IF s # <<>> /\ IsSpace(Head(s)) THEN LStrip(Tail(s)) ELSE s

RECURSIVE RStrip(_)
RStrip(s) ==
    IF s # <<>> /\ IsSpace(s[Len(s)]) THEN RStrip(SubSeq(s, 1, Len(s) - 1))
    ELSE s

Strip(s) == RStrip(LStrip(s))

\* Python's s < t on strings: lexicographic by code point, a proper prefix
\* being smaller.
RECURSIVE StrLess(_, _)
StrLess(s, t) ==
    IF t = <<>> THEN FALSE
    ELSE IF s = <<>> THEN TRUE
    ELSE IF Head(s) = Head(t) THEN StrLess(Tail(s), Tail(t))
    ELSE Ord(Head(s)) < Ord(Head(t))

\* x in list
Contains(list, x) == \E i \in 1..Len(list) : list[i] = x

(***************************************************************************)
(* JSON scalars                                                            *)
(***************************************************************************)

None == [kind |-> "none", s |-> <<>>, n |-> 0]
Str(s) == [kind |-> "str", s |-> s, n |-> 0]
Num(n) == [kind |-> "num", s |-> <<>>, n |-> n]

\* bool(v): None, "" and 0 are falsy.
Truthy(v) ==
    \/ v.kind = "str" /\ v.s # <<>>
    \/ v.kind = "num" /\ v.n # 0

\* str(n) for a natural number.
RECURSIVE Digits(_)
Digits(n) ==
    IF n < 10 THEN <<Ascii[n + 17]>>
    ELSE Append(Digits(n \div 10), Ascii[(n % 10) + 17])

\* str(v) for a string or a natural number.
PyStr(v) == IF v.kind = "num" THEN Digits(v.n) ELSE v.s

\* dict.get(key) on a dict whose keys are strings; the key asked for may
\* be None (a null header), which no JSON object has as a key.
Get(d, key) ==
    IF key.kind = "str" /\ key.s \in DOMAIN d THEN d[key.s] ELSE None

\* d[key] = value on a dict
Put(d, key, value) ==
    [k \in DOMAIN d \cup {key} |-> IF k = key THEN value ELSE d[k]]

\* d.update(e)
Update(d, e) ==
    [k \in DOMAIN d \cup DOMAIN e |-> IF k \in DOMAIN e THEN e[k] ELSE d[k]]

EmptyDict == [k \in {} |-> None]

(***************************************************************************)
(* String literals of the source                                           *)
(***************************************************************************)

s_Length == <<"L", "e", "n", "g", "t", "h">>
s_Size == <<"S", "i", "z", "e">>
s_Gauge == <<"G", "a", "u", "g", "e">>
s_Color == <<"C", "o", "l", "o", "r">>
s_Packing_Option ==
    <<"P", "a", "c", "k", "i", "n", "g", " ", "O", "p", "t", "i", "o", "n">>
s_Rack == <<"R", "a", "c", "k">>
s_Option == <<"O", "p", "t", "i", "o", "n">>
s_Unspecified ==
    <<"U", "n", "s", "p", "e", "c", "i", "f", "i", "e", "d">>
s_Price == <<"P", "r", "i", "c", "e">>
s_Price_pc == <<"P", "r", "i", "c", "e", " ", "/", " ", "p", "c">>
s_image == <<"i", "m", "a", "g", "e">>
s_image_local ==
    <<"i", "m", "a", "g", "e", "_", "l", "o", "c", "a", "l">>

(***************************************************************************)
(* normalize_axis_label                                                    *)
(***************************************************************************)

\* Index of the first character of s at or after i that is not whitespace
\* (Len(s) + 1 if there is none): the regular expression's \s*.
RECURSIVE SkipSpace(_, _)
SkipSpace(s, i) ==
    IF i <= Len(s) /\ IsSpace(s[i]) THEN SkipSpace(s, i + 1) ELSE i

\* The same for digits: \d*.
RECURSIVE SkipDigits(_, _)
SkipDigits(s, i) ==
    IF i <= Len(s) /\ IsDigit(s[i]) THEN SkipDigits(s, i + 1) ELSE i

\* _MM_RE.match(s): ^\s*\d+(?:\.\d+)?\s*mm\s*$ with re.IGNORECASE.
_MM_RE(s) ==
    LET a == SkipSpace(s, 1)
        b == SkipDigits(s, a)
        f == IF b <= Len(s) /\ s[b] = "." THEN SkipDigits(s, b + 1) ELSE b
        c == IF f > b + 1 THEN f ELSE b
        d == SkipSpace(s, c)
    IN  /\ b > a
        /\ d + 1 <= Len(s)
        /\ LowerChar(s[d]) = "m"
        /\ LowerChar(s[d + 1]) = "m"
        /\ SkipSpace(s, d + 2) = Len(s) + 1

\* normalize_axis_label with the alias table consulted before the "mm" test.
normalize_axis_label_AliasFirst(raw_label, option_names) ==
    LET label == Strip(IF Truthy(raw_label) THEN raw_label.s ELSE <<>>)
        lower == Lower(label)
    IN  IF lower \in {<<"c", "z", " ", "c", "o", "l", "o", "r">>,
                      <<"c", "r", "y", "s", "t", "a", "l", " ",
                        "c", "o", "l", "o", "r">>,
                      <<"c", "o", "l", "o", "r">>}
        THEN s_Color
        ELSE IF lower \in {<<"s", "i", "z", "e">>} THEN s_Size
        ELSE IF /\ option_names # <<>>
                /\ \A i \in 1..Len(option_names) : _MM_RE(option_names[i])
        THEN s_Length
        ELSE IF label # <<>> THEN label
        ELSE s_Option

normalize_axis_label(raw_label, option_names) ==
    LET label == Strip(IF Truthy(raw_label) THEN raw_label.s ELSE <<>>)
        lower == Lower(label)
    IN  IF /\ option_names # <<>>
           /\ \A i \in 1..Len(option_names) : _MM_RE(option_names[i])
        THEN s_Length
        ELSE IF lower \in {<<"c", "z", " ", "c", "o", "l", "o", "r">>,
                           <<"c", "r", "y", "s", "t", "a", "l", " ",
                             "c", "o", "l", "o", "r">>,
                           <<"c", "o", "l", "o", "r">>}
        THEN s_Color
        ELSE IF lower \in {<<"p", "a", "c", "k", "i", "n", "g", " ",
                             "o", "p", "t", "i", "o", "n">>,
                           <<"p", "a", "c", "k", "i", "n", "g">>,
                           <<"p", "a", "c", "k", "a", "g", "e">>}
        THEN s_Packing_Option
        ELSE IF lower \in {<<"r", "a", "c", "k">>} THEN s_Rack
        ELSE IF lower \in {<<"g", "a", "u", "g", "e">>} THEN s_Gauge
        ELSE IF lower \in {<<"s", "i", "z", "e">>} THEN s_Size
        ELSE IF label # <<>> THEN label
        ELSE s_Option

_PRICEY_COLS ==
    {<<"p", "r", "i", "c", "e">>,
     <<"p", "r", "i", "c", "e", " ", "/", " ", "p", "c">>,
     <<"p", "r", "i", "c", "e", "/", "p", "c">>,
     <<"p", "r", "i", "c", "e", " ", "p", "e", "r", " ", "p", "c">>,
     <<"p", "r", "i", "c", "e", " ", "p", "e", "r", " ", "p", "a", "i", "r">>,
     <<"p", "r", "i", "c", "e", " ", "p", "e", "r", " ",
       "p", "i", "e", "c", "e">>}

_clean_option_name(name) ==
    LET s == Strip(IF name.kind = "none" THEN <<>> ELSE PyStr(name))
    IN  IF s # <<>> THEN s ELSE s_Unspecified

\* (h or "").strip().lower() in _PRICEY_COLS
IsPricey(h) ==
    Lower(Strip(IF Truthy(h) THEN h.s ELSE <<>>)) \in _PRICEY_COLS

(***************************************************************************)
(* build_variant_axes                                                      *)
(*                                                                         *)
(* A variant block is a record [type, headers, items, label, options]; a   *)
(* key the JSON leaves out is None (or the empty list v.get(..) or []      *)
(* turns it into).  A row of a tabular block is a dict from column names   *)
(* (and "image", "image_local") to scalars; an option of a swatch block    *)
(* is a record [name, image_local, image].                                 *)
(***************************************************************************)

\* Lines 174-186: one column h of a tabular block, scanned row by row from
\* row i on; acc is [options_order, image_map].
RECURSIVE ScanColumn(_, _, _, _)
ScanColumn(items, h, i, acc) ==
    IF i > Len(items) THEN acc
    ELSE
        LET row == items[i]
            val == _clean_option_name(Get(row, h))
            order ==
                IF val # <<>> /\ ~Contains(acc.options_order, val)
                THEN Append(acc.options_order, val)
                ELSE acc.options_order
            img_local == Get(row, Str(s_image_local))
            img == Get(row, Str(s_image))
            imap ==
                IF Truthy(img_local) THEN Put(acc.image_map, val, img_local)
                ELSE IF Truthy(img) THEN Put(acc.image_map, val, img)
                ELSE acc.image_map
        IN  ScanColumn(items, h, i + 1,
                       [options_order |-> order, image_map |-> imap])

\* Lines 204-212: the options of a swatch block, from option i on; acc is
\* [opt_names, image_map].
RECURSIVE ScanOptions(_, _, _)
ScanOptions(options, i, acc) ==
    IF i > Len(options) THEN acc
    ELSE
        LET opt == options[i]
            name == _clean_option_name(opt.name)
            imap ==
                IF Truthy(opt.image_local)
                THEN Put(acc.image_map, name, opt.image_local)
                ELSE IF Truthy(opt.image)
                THEN Put(acc.image_map, name, opt.image)
                ELSE acc.image_map
        IN  ScanOptions(options, i + 1,
                        [opt_names |-> Append(acc.opt_names, name),
                         image_map |-> imap])

\* AppendNew without the membership test of lines 194 and 219.
AppendNew_NoTest(options, names) == options \o names

\* for opt in names: if opt not in bucket["options"]: append
RECURSIVE AppendNew(_, _)
AppendNew(options, names) ==
    IF names = <<>> THEN options
    ELSE AppendNew(IF Contains(options, Head(names)) THEN options
                   ELSE Append(options, Head(names)),
                   Tail(names))

\* MergeBucket with the bucket's options replaced by the block's, not merged.
MergeBucket_Overwrite(axes_by_label, normalized, names, image_map, idx) ==
    LET fresh == [label |-> normalized, options |-> <<>>,
                  image_map |-> EmptyDict, source_blocks |-> <<>>,
                  kind |-> "merged"]
        have == \E k \in 1..Len(axes_by_label) :
                    axes_by_label[k].label = normalized
        dict == IF have THEN axes_by_label ELSE Append(axes_by_label, fresh)
    IN  [k \in 1..Len(dict) |->
            IF dict[k].label = normalized
            THEN [dict[k] EXCEPT
                    !.options = AppendNew(<<>>, names),
                    !.image_map = Update(@, image_map),
                    !.source_blocks = Append(@, idx)]
            ELSE dict[k]]

\* Lines 188-197 and 214-222: axes_by_label.setdefault(normalized, ..) and
\* the merge into that bucket.  axes_by_label is the dict's values in
\* insertion order.
MergeBucket(axes_by_label, normalized, names, image_map, idx) ==
    LET fresh == [label |-> normalized, options |-> <<>>,
                  image_map |-> EmptyDict, source_blocks |-> <<>>,
                  kind |-> "merged"]
        have == \E k \in 1..Len(axes_by_label) :
                    axes_by_label[k].label = normalized
        dict == IF have THEN axes_by_label ELSE Append(axes_by_label, fresh)
    IN  [k \in 1..Len(dict) |->
            IF dict[k].label = normalized
            THEN [dict[k] EXCEPT
                    !.options = AppendNew(@, names),
                    !.image_map = Update(@, image_map),
                    !.source_blocks = Append(@, idx)]
            ELSE dict[k]]

\* Lines 171-197: the headers of tabular block v (block number idx), from
\* header j on.
RECURSIVE ScanHeaders(_, _, _, _)
ScanHeaders(axes_by_label, v, idx, j) ==
    IF j > Len(v.headers) THEN axes_by_label
    ELSE
        LET h == v.headers[j]
            col == ScanColumn(v.items, h, 1,
                              [options_order |-> <<>>,
                               image_map |-> EmptyDict])
            normalized == normalize_axis_label(h, col.options_order)
        IN  IF IsPricey(h)
            THEN ScanHeaders(axes_by_label, v, idx, j + 1)
            ELSE ScanHeaders(MergeBucket(axes_by_label, normalized,
                                         col.options_order, col.image_map,
                                         idx),
                             v, idx, j + 1)

\* Lines 199-222: a swatch block.
MergeSwatch(axes_by_label, v, idx) ==
    LET label == IF Truthy(v.label) THEN v.label ELSE Str(s_Color)
        scan == ScanOptions(v.options, 1,
                            [opt_names |-> <<>>, image_map |-> EmptyDict])
        normalized == normalize_axis_label(label, scan.opt_names)
    IN  MergeBucket(axes_by_label, normalized, scan.opt_names,
                    scan.image_map, idx)

\* Lines 165-224: the blocks from number idx on (enumerate counts from 0,
\* blocks[idx + 1] is block number idx).
RECURSIVE ScanBlocks(_, _, _)
ScanBlocks(axes_by_label, blocks, idx) ==
    IF idx >= Len(blocks) THEN axes_by_label
    ELSE
        LET v == blocks[idx + 1]
        IN  ScanBlocks(
                IF v.type = "standard_variant"
                THEN ScanHeaders(axes_by_label, v, idx, 1)
                ELSE IF v.type = "color_variant"
                THEN MergeSwatch(axes_by_label, v, idx)
                ELSE axes_by_label,
                blocks, idx + 1)

\* Line 227: priority.get(label, 99)
Priority(label) ==
    IF label = s_Length THEN 0
    ELSE IF label = s_Size THEN 1
    ELSE IF label = s_Gauge THEN 2
    ELSE IF label = s_Color THEN 3
    ELSE IF label = s_Packing_Option THEN 4
    ELSE IF label = s_Rack THEN 5
    ELSE 99

\* KeyLess with the label as the whole sort key.
KeyLess_LabelOnly(a, b) == StrLess(a.label, b.label)

\* Line 228: the sort key (priority, label) of a is below that of b.
KeyLess(a, b) ==
    \/ Priority(a.label) < Priority(b.label)
    \/ /\ Priority(a.label) = Priority(b.label)
       /\ StrLess(a.label, b.label)

\* sorted(list, key=..): a stable sort; x goes after every element whose key
\* is not above its own.
RECURSIVE InsertSorted(_, _)
InsertSorted(list, x) ==
    IF list = <<>> THEN <<x>>
    ELSE IF KeyLess(x, Head(list)) THEN <<x>> \o list
    ELSE <<Head(list)>> \o InsertSorted(Tail(list), x)

RECURSIVE Sorted(_)
Sorted(list) ==
    IF list = <<>> THEN <<>>
    ELSE InsertSorted(Sorted(SubSeq(list, 1, Len(list) - 1)),
                      list[Len(list)])

build_variant_axes(product) ==
    Sorted(ScanBlocks(<<>>, product.variants, 0))

(***************************************************************************)
(* compute_price_info                                                      *)
(***************************************************************************)

\* A resolver that keeps the price columns among the match headers.
MatchHeaders_All(headers) == headers

\* Line 243: the headers of a tabular block that are not price columns.
RECURSIVE MatchHeaders(_)
MatchHeaders(headers) ==
    IF headers = <<>> THEN <<>>
    ELSE IF IsPricey(Head(headers)) THEN MatchHeaders(Tail(headers))
    ELSE <<Head(headers)>> \o MatchHeaders(Tail(headers))

\* A resolver that looks the selection up under the raw header.
RowMatches_RawHeader(row, match_headers, sel) ==
    \A j \in 1..Len(match_headers) :
        LET h == match_headers[j]
        IN  \/ h.kind # "str"
            \/ h.s \notin DOMAIN sel
            \/ _clean_option_name(Get(row, h)) = sel[h.s]

\* Lines 248-256: ok for one row.  The label a column is looked up under is
\* normalize_axis_label(h, []): the label alone, with no option values.
RowMatches(row, match_headers, sel) ==
    \A j \in 1..Len(match_headers) :
        LET h == match_headers[j]
            norm_label == normalize_axis_label(h, <<>>)
        IN  \/ norm_label \notin DOMAIN sel
            \/ _clean_option_name(Get(row, h)) = sel[norm_label]

\* A resolver that keeps a field an earlier block has set.
ExtractPrice_KeepFirst(info, row) ==
    LET a == IF /\ s_Price \in DOMAIN row /\ row[s_Price].kind = "num"
                /\ s_Price \notin DOMAIN info
             THEN Put(info, s_Price, row[s_Price])
             ELSE info
    IN  IF /\ s_Price_pc \in DOMAIN row /\ row[s_Price_pc].kind = "str"
           /\ s_Price_pc \notin DOMAIN a
        THEN Put(a, s_Price_pc, row[s_Price_pc])
        ELSE a

\* Lines 259-262: the price fields of a matching row, written over info.
ExtractPrice(info, row) ==
    LET a == IF s_Price \in DOMAIN row /\ row[s_Price].kind = "num"
             THEN Put(info, s_Price, row[s_Price])
             ELSE info
    IN  IF s_Price_pc \in DOMAIN row /\ row[s_Price_pc].kind = "str"
        THEN Put(a, s_Price_pc, row[s_Price_pc])
        ELSE a

\* Lines 239-264: the blocks from blocks[k] on; info is price_info so far.
RECURSIVE PriceBlocks(_, _, _, _)
PriceBlocks(info, blocks, k, sel) ==
    IF k > Len(blocks) THEN info
    ELSE
        LET v == blocks[k]
            match_headers == MatchHeaders(v.headers)
            hits == {i \in 1..Len(v.items) :
                        RowMatches(v.items[i], match_headers, sel)}
            first == CHOOSE i \in hits : \A m \in hits : i <= m
        IN  IF v.type # "standard_variant" \/ match_headers = <<>>
               \/ hits = {}
            THEN PriceBlocks(info, blocks, k + 1, sel)
            ELSE PriceBlocks(ExtractPrice(info, v.items[first]), blocks,
                             k + 1, sel)

compute_price_info(product, sel) ==
    PriceBlocks(EmptyDict, product.variants, 1, sel)

(***************************************************************************)
(* render_product_page, lines 348-375: the selectors, the preview image    *)
(* and the price of the product on display.                                *)
(***************************************************************************)

\* next((p for p in products if p.get("sku") == sku), None)
HasProduct(sku) == \E k \in 1..Len(products) : products[k].sku = sku

ProductOf(sku) ==
    products[CHOOSE k \in 1..Len(products) :
                /\ products[k].sku = sku
                /\ \A m \in 1..(k - 1) : products[m].sku # sku]

\* Line 356: options = ax["options"] or ["Unspecified"]
OptionsOf(ax) == IF ax.options # <<>> THEN ax.options ELSE <<s_Unspecified>>

\* Lines 360-361: a selector seen for the first time starts on its first
\* option.  w is the session's widget state.
WidgetDefaults(w, sku, axs) ==
    LET keys == {<<sku, axs[k].label>> : k \in 1..Len(axs)}
    IN  [key \in DOMAIN w \cup keys |->
            IF key \in DOMAIN w THEN w[key]
            ELSE LET k == CHOOSE k \in 1..Len(axs) : axs[k].label = key[2]
                 IN  OptionsOf(axs[k])[1]]

\* Lines 362-363: selections[label] = chosen, the selector's value; a value
\* that is none of the options shows the first option.
SelectionsOf(w, sku, axs) ==
    [label \in {axs[k].label : k \in 1..Len(axs)} |->
        LET k == CHOOSE k \in 1..Len(axs) : axs[k].label = label
            value == w[<<sku, label>>]
        IN  IF Contains(OptionsOf(axs[k]), value) THEN value
            ELSE OptionsOf(axs[k])[1]]

\* Lines 365-368 and 389: variant_preview_images[0], or None: the image of
\* the first axis from axs[k] on whose chosen option has one.
RECURSIVE FirstPreview(_, _, _)
FirstPreview(axs, sel, k) ==
    IF k > Len(axs) THEN None
    ELSE LET vimg == Get(axs[k].image_map, Str(sel[axs[k].label]))
         IN  IF Truthy(vimg) THEN vimg ELSE FirstPreview(axs, sel, k + 1)

\* best_image, lines 80-84
best_image(product) ==
    IF Truthy(product.main_image_local) THEN product.main_image_local
    ELSE product.main_image

\* The run of render_product_page for product sku with the selectors in
\* state w: what it leaves in the session and in its locals.
Render(sku, w) ==
    LET product == ProductOf(sku)
        axs == build_variant_axes(product)
        w2 == WidgetDefaults(w, sku, axs)
        sel == SelectionsOf(w2, sku, axs)
    IN  /\ axes' = axs
        /\ widget' = w2
        /\ selections' = sel
        /\ variant_image' = FirstPreview(axs, sel, 1)
        /\ price_info' = compute_price_info(product, sel)

\* A page other than the product page: render_product_page's locals are gone.
NoProductPage ==
    /\ axes' = <<>>
    /\ selections' = EmptyDict
    /\ variant_image' = None
    /\ price_info' = EmptyDict

(***************************************************************************)
(* Inputs: the catalogues the specifications start from                    *)
(***************************************************************************)

MaxBlocks == 2      \* variant blocks of a product
MaxRows == 2        \* rows and swatch options of a product, all blocks
MaxCols == 4        \* columns of the one wide table
MaxWish == 3        \* entries of the wishlist
MaxSel == 2         \* entries of a selection handed to compute_price_info

s_CZ_Color == <<"C", "Z", " ", "C", "o", "l", "o", "r">>
s_Crystal_Color ==
    <<"C", "r", "y", "s", "t", "a", "l", " ", "C", "o", "l", "o", "r">>
s_color_padded == <<" ", "c", "o", "l", "o", "r", " ">>
s_Zinc == <<"Z", "i", "n", "c">>
s_alloy == <<"a", "l", "l", "o", "y">>
s_rack_upper == <<"R", "A", "C", "K">>
s_8mm == <<"8", "m", "m">>
s_10mm == <<"1", "0", ".", "5", " ", "M", "M">>
s_Red == <<"R", "e", "d">>
s_Blue == <<"B", "l", "u", "e">>
s_Ghost == <<"G", "h", "o", "s", "t">>
s_A1 == <<"A", "1">>
s_B2 == <<"B", "2">>

Tabular(headers, items) ==
    [type |-> "standard_variant", headers |-> headers, items |-> items,
     label |-> None, options |-> <<>>]

Swatch(label, options) ==
    [type |-> "color_variant", headers |-> <<>>, items |-> <<>>,
     label |-> label, options |-> options]

\* A block of a type the code does not know.
OtherBlock ==
    [type |-> "size_chart", headers |-> <<>>, items |-> <<>>,
     label |-> None, options |-> <<>>]

Option(name, image) == [name |-> name, image_local |-> None, image |-> image]

Product(sku, variants) ==
    [sku |-> sku, title |-> None, main_image |-> None,
     main_image_local |-> None, url |-> None, variants |-> variants]

\* A product's blocks are drawn shape by shape: how many rows (or swatch
\* options) each block has, what each block is, and the contents of the
\* rows, those of all blocks in one list.
RECURSIVE SumTo(_, _)
SumTo(counts, n) == IF n = 0 THEN 0 ELSE SumTo(counts, n - 1) + counts[n]

\* The rows of block i out of the list of all rows.
RowsOfBlock(counts, rows, i) ==
    SubSeq(rows, SumTo(counts, i - 1) + 1, SumTo(counts, i))

\* --- build_variant_axes: narrow blocks (one column, or a swatch) ---------

AxesCells == {Str(s_8mm), Str(s_10mm), Str(s_Red), Str(<<>>)}

\* What a narrow block is: a table of one column, a swatch block with or
\* without a label, or a block of a type the code does not know.
NarrowShapes ==
    {[type |-> "standard_variant", name |-> h] :
        h \in {Str(s_Size), Str(s_CZ_Color), Str(<<>>), Str(s_Price)}}
    \cup {[type |-> "color_variant", name |-> l] :
            l \in {Str(s_Crystal_Color), None}}
    \cup {[type |-> "size_chart", name |-> None]}

NarrowBlock(shape, cells) ==
    IF shape.type = "standard_variant"
    THEN Tabular(<<shape.name>>,
                 [i \in 1..Len(cells) |-> (shape.name.s :> cells[i])])
    ELSE IF shape.type = "color_variant"
    THEN Swatch(shape.name, [i \in 1..Len(cells) |-> Option(cells[i], None)])
    ELSE OtherBlock

NarrowProduct(counts, shapes, cells) ==
    Product(Str(s_A1),
            [i \in 1..Len(counts) |->
                NarrowBlock(shapes[i], RowsOfBlock(counts, cells, i))])

\* --- build_variant_axes: one wide table of one row ------------------------

WideHeaders ==
    {Str(s_Size), Str(s_color_padded), Str(s_Zinc), Str(s_alloy),
     Str(s_rack_upper), Str(s_Price_pc)}

WideProduct(headers) ==
    Product(Str(s_A1),
            <<Tabular(headers,
                      <<[key \in {headers[j].s : j \in 1..Len(headers)} |->
                            Str(s_Red)]>>)>>)

\* --- compute_price_info: priced tables -------------------------------------

s_x == <<"$", "1", ".", "5", "0">>
s_5 == <<"5">>

\* The price fields a row may carry: a numeric Price alone, both fields, or
\* both of the wrong type (a Price that is a string, a Price / pc that is a
\* number).
PriceFields ==
    {(s_Price :> Num(5)),
     (s_Price :> Num(7)) @@ (s_Price_pc :> Str(s_x)),
     (s_Price :> Str(s_5)) @@ (s_Price_pc :> Num(3))}

PriceCells == {Str(s_8mm), Str(s_Red)}

\* The headers of the tables of a priced product; the last has price
\* columns alone.
PricedHeaders ==
    {<<Str(s_Size), Str(s_Price), Str(s_Price_pc)>>,
     <<Str(s_CZ_Color), Str(s_Price)>>,
     <<Str(s_Price)>>}

\* A row of a priced table: the one cell goes into every column that is
\* not a price column, next to the price fields.
PricedRow(headers, cell, fields) ==
    [key \in {headers[j].s : j \in 1..Len(headers)} \ {s_Price, s_Price_pc}
        |-> cell] @@ fields

PricedBlock(headers, rows) ==
    Tabular(headers,
            [i \in 1..Len(rows) |->
                PricedRow(headers, rows[i][1], rows[i][2])])

PricedProduct(counts, headers, rows) ==
    Product(Str(s_A1),
            [i \in 1..Len(counts) |->
                PricedBlock(headers[i], RowsOfBlock(counts, rows, i))])

\* The labels and options a caller may put into a selection.
SelLabels == {s_Size, s_Color}
SelOptions == {s_8mm, s_Red}

\* --- the session: catalogues of two products -------------------------------

s_a_jpg == <<"a", ".", "j", "p", "g">>
s_b_jpg == <<"b", ".", "j", "p", "g">>

\* Product A1: one table of two rows, priced 5 and 7.
TableProducts ==
    {Product(Str(s_A1),
             <<Tabular(<<h, Str(s_Price)>>,
                       <<(h.s :> Str(s_8mm)) @@ (s_Price :> Num(5)),
                         (h.s :> c) @@ (s_Price :> Num(7))
                            @@ (s_image :> Str(s_a_jpg))>>)>>) :
        h \in {Str(s_Size), Str(s_Zinc), Str(s_Length)},
        c \in {Str(s_10mm), Str(s_Red)}}

\* Product B2: a swatch block, alone or after a table with a colour column.
SwatchProducts ==
    {Product(Str(s_B2), blocks) :
        blocks \in
            {<<Swatch(Str(s_Crystal_Color),
                      <<Option(Str(s_Red), Str(s_b_jpg)),
                        Option(Str(s_Blue), None)>>)>>,
             <<Tabular(<<Str(s_CZ_Color), Str(s_Price_pc)>>,
                       <<(s_CZ_Color :> Str(s_Blue))
                            @@ (s_Price_pc :> Str(s_x))>>),
               Swatch(None, <<Option(Str(s_Red), Str(s_b_jpg))>>)>>}}

Catalogs == {<<a, b>> : a \in TableProducts, b \in SwatchProducts}

(***************************************************************************)
(* The session                                                             *)
(***************************************************************************)

\* The adds of one session.
MaxAdds == MaxWish

\* top_nav, lines 288-299: the header of a run, drawn on every page but the
\* login page, shows len(st.session_state["wishlist"]).
NoCount == -1

top_nav(p, list) == IF p = "login" THEN NoCount ELSE Len(list)

\* A run in which no Remove button is pressed and the wishlist stays.
Rerun ==
    /\ nav_count' = top_nav(page', wishlist')
    /\ clicked' = -1
    /\ UNCHANGED <<adds, removes>>

\* ensure_session_defaults, lines 268-272 (the username, which nothing
\* reads, is left out), before any page has run.
SessionDefaults ==
    /\ page = "login"
    /\ wishlist = <<>>
    /\ selected_sku = None
    /\ widget = <<>>
    /\ axes = <<>>
    /\ selections = EmptyDict
    /\ variant_image = None
    /\ price_info = EmptyDict
    /\ last = "start"
    /\ nav_count = NoCount
    /\ clicked = -1
    /\ adds = 0
    /\ removes = 0

Init ==
    /\ products \in Catalogs
    /\ SessionDefaults

\* page_login, lines 455-458: any credentials log in.
Login ==
    /\ page = "login"
    /\ page' = "main"
    /\ last' = "login"
    /\ UNCHANGED <<products, selected_sku, widget, wishlist, axes, selections,
                   variant_image, price_info>>
    /\ Rerun

\* set_page("main"): the sidebar's Main Page, or Back to Gallery
\* (lines 333, 399, 507-508).
GoMain ==
    /\ page \in {"product", "wishlist"}
    /\ page' = "main"
    /\ NoProductPage
    /\ last' = "main"
    /\ UNCHANGED <<products, selected_sku, widget, wishlist>>
    /\ Rerun

\* set_page("wishlist"): the header's or the sidebar's Wishlist button
\* (lines 298-299, 509-510).
GoWishlist ==
    /\ page \in {"main", "product"}
    /\ page' = "wishlist"
    /\ NoProductPage
    /\ last' = "wishlist"
    /\ UNCHANGED <<products, selected_sku, widget, wishlist>>
    /\ Rerun

\* go_product(sku), lines 280-282 and 311-312, and the product page's run.
GoProduct(sku) ==
    /\ page = "main"
    /\ HasProduct(sku)
    /\ selected_sku' = sku
    /\ page' = "product"
    /\ Render(sku, widget)
    /\ last' = "view"
    /\ UNCHANGED <<products, wishlist>>
    /\ Rerun

\* The user picks another option in a selector of the product page (line
\* 362), and the page runs again.
SelectOption(label, option) ==
    /\ page = "product"
    /\ \E k \in 1..Len(axes) :
        /\ axes[k].label = label
        /\ Contains(OptionsOf(axes[k]), option)
    /\ widget[<<selected_sku, label>>] # option
    /\ Render(selected_sku,
              [widget EXCEPT ![<<selected_sku, label>>] = option])
    /\ last' = "select"
    /\ UNCHANGED <<products, page, selected_sku, wishlist>>
    /\ Rerun

\* add_to_wishlist, lines 382-393: the item of the last run is appended.
WishlistItem ==
    LET product == ProductOf(selected_sku)
    IN  [sku |-> product.sku,
         title |-> IF Truthy(product.title) THEN product.title
                   ELSE product.sku,
         main_image |-> best_image(product),
         url |-> product.url,
         selections |-> selections,
         variant_image |-> variant_image,
         price_info |-> price_info]

\* An add that keeps one entry per (sku, selections): an entry of the same
\* combination is replaced, not joined by a second one.
AddToWishlist_OnePerCombination ==
    /\ page = "product"
    /\ Len(wishlist) < MaxWish
    /\ adds < MaxAdds
    /\ LET same == {i \in 1..Len(wishlist) :
                        /\ wishlist[i].sku = WishlistItem.sku
                        /\ wishlist[i].selections = WishlistItem.selections}
       IN  wishlist' =
               IF same = {} THEN Append(wishlist, WishlistItem)
               ELSE [i \in 1..Len(wishlist) |->
                        IF i \in same THEN WishlistItem ELSE wishlist[i]]
    /\ last' = "add"
    /\ UNCHANGED <<products, page, selected_sku, widget, axes, selections,
                   variant_image, price_info>>
    /\ adds' = adds + 1
    /\ nav_count' = top_nav(page', wishlist')
    /\ clicked' = -1
    /\ UNCHANGED removes

AddToWishlist ==
    /\ page = "product"
    /\ Len(wishlist) < MaxWish
    /\ adds < MaxAdds
    /\ wishlist' = Append(wishlist, WishlistItem)
    /\ last' = "add"
    /\ UNCHANGED <<products, page, selected_sku, widget, axes, selections,
                   variant_image, price_info>>
    /\ adds' = adds + 1
    /\ nav_count' = top_nav(page', wishlist')
    /\ clicked' = -1
    /\ UNCHANGED removes

\* A remove that deletes from entry i to the end (del wishlist[i:]).
Remove_Truncate(i) ==
    /\ page = "wishlist"
    /\ i \in 0..(Len(wishlist) - 1)
    /\ wishlist' = SubSeq(wishlist, 1, i)
    /\ last' = "remove"
    /\ UNCHANGED <<products, page, selected_sku, widget, axes, selections,
                   variant_image, price_info>>
    /\ removes' = removes + 1
    /\ clicked' = i
    /\ nav_count' = top_nav(page', wishlist')
    /\ UNCHANGED adds

\* A remove without the st.rerun() of line 437: the header keeps the count
\* it drew before the entry was deleted.
Remove_NoRerun(i) ==
    /\ page = "wishlist"
    /\ i \in 0..(Len(wishlist) - 1)
    /\ wishlist' = SubSeq(wishlist, 1, i) \o SubSeq(wishlist, i + 2, Len(wishlist))
    /\ last' = "remove"
    /\ UNCHANGED <<products, page, selected_sku, widget, axes, selections,
                   variant_image, price_info>>
    /\ removes' = removes + 1
    /\ clicked' = i
    /\ nav_count' = top_nav(page, wishlist)
    /\ UNCHANGED adds

\* Lines 435-437: del st.session_state["wishlist"][i] and st.rerun(), i
\* counted from 0.
Remove(i) ==
    /\ page = "wishlist"
    /\ i \in 0..(Len(wishlist) - 1)
    /\ wishlist' = SubSeq(wishlist, 1, i) \o SubSeq(wishlist, i + 2, Len(wishlist))
    /\ last' = "remove"
    /\ UNCHANGED <<products, page, selected_sku, widget, axes, selections,
                   variant_image, price_info>>
    /\ removes' = removes + 1
    /\ clicked' = i
    /\ nav_count' = top_nav(page', wishlist')
    /\ UNCHANGED adds

Next ==
    \/ Login
    \/ GoMain
    \/ GoWishlist
    \/ \E k \in 1..Len(products) : GoProduct(products[k].sku)
    \/ \E label \in {axes[k].label : k \in 1..Len(axes)} :
        \E option \in UNION {{ax.options[j] : j \in 1..Len(ax.options)} :
                             ax \in {axes[k] : k \in 1..Len(axes)}} :
            SelectOption(label, option)
    \/ AddToWishlist
    \/ \E i \in 0..(MaxWish - 1) : Remove(i)

Spec == Init /\ [][Next]_vars

(***************************************************************************)
(* build_variant_axes on its own: any product of up to MaxBlocks narrow     *)
(* blocks with up to MaxRows rows in all, or of one wide table             *)
(***************************************************************************)

InitAxes ==
    /\ \/ \E n \in 0..MaxBlocks :
            \E counts \in [1..n -> 0..MaxRows] :
                /\ SumTo(counts, n) <= MaxRows
                /\ \E shapes \in [1..n -> NarrowShapes] :
                    /\ \A i \in 1..n :
                        shapes[i].type = "size_chart" => counts[i] = 0
                    /\ \E cells \in [1..SumTo(counts, n) -> AxesCells] :
                        products = <<NarrowProduct(counts, shapes, cells)>>
       \/ \E n \in 0..MaxCols :
            \E headers \in [1..n -> WideHeaders] :
                products = <<WideProduct(headers)>>
    /\ SessionDefaults

CallBuildAxes ==
    /\ last = "start"
    /\ axes' = build_variant_axes(products[1])
    /\ last' = "build_variant_axes"
    /\ UNCHANGED <<products, page, selected_sku, widget, wishlist, selections,
                   variant_image, price_info, nav_count, clicked, adds,
                   removes>>

NextAxes == CallBuildAxes

SpecAxes == InitAxes /\ [][NextAxes]_vars

(***************************************************************************)
(* compute_price_info on its own: any product of up to MaxBlocks priced    *)
(* blocks with up to MaxRows rows in all, and any selection of             *)
(* SelectionInputs                                                         *)
(***************************************************************************)

InitPrice ==
    /\ \E n \in 0..MaxBlocks :
        \E counts \in [1..n -> 0..MaxRows] :
            /\ SumTo(counts, n) <= MaxRows
            /\ \E headers \in [1..n -> PricedHeaders] :
                \E rows \in [1..SumTo(counts, n) -> PriceCells \X PriceFields] :
                    products = <<PricedProduct(counts, headers, rows)>>
    /\ SessionDefaults

\* The selections a caller may hand over: at most MaxSel entries.
SelectionInputs ==
    UNION {[labels -> SelOptions] :
           labels \in {L \in SUBSET SelLabels : Cardinality(L) <= MaxSel}}

\* price_info = compute_price_info(product, sel), as on line 375.
ResolvePrice(sel) ==
    /\ last = "start"
    /\ selections' = sel
    /\ price_info' = compute_price_info(products[1], sel)
    /\ last' = "compute_price_info"
    /\ UNCHANGED <<products, page, selected_sku, widget, wishlist, axes,
                   variant_image, nav_count, clicked, adds, removes>>

NextPrice == \E sel \in SelectionInputs : ResolvePrice(sel)

SpecPrice == InitPrice /\ [][NextPrice]_vars

(***************************************************************************)
(* Properties of build_variant_axes (SpecAxes)                             *)
(***************************************************************************)

Built == last = "build_variant_axes"

Blocks == products[1].variants

NoRepeat(list) ==
    \A i, j \in 1..Len(list) : list[i] = list[j] => i = j

\* C1: for every product, build_variant_axes returns no axis whose options
\* hold the same name twice, and no two axes with the same label.
C1_NoDuplicateOptionsOrLabels ==
    Built =>
        /\ \A k \in 1..Len(axes) : NoRepeat(axes[k].options)
        /\ NoRepeat([k \in 1..Len(axes) |-> axes[k].label])

\* C1 happens: a table column and a swatch block of the same canonical
\* label both hold the value Red, and the one axis built holds it once.
C1_Witness ==
    /\ Built
    /\ Blocks = <<Tabular(<<Str(s_CZ_Color)>>, <<(s_CZ_Color :> Str(s_Red))>>),
                  Swatch(None, <<Option(Str(s_Red), None)>>)>>
    /\ Len(axes) = 1
    /\ axes[1].options = <<s_Red>>
    /\ axes[1].source_blocks = <<0, 1>>

\* A raw cell value that reads as a number of millimetres.
IsMm(v) == v.kind = "str" /\ _MM_RE(v.s)

\* The columns of block v that are not price columns, and the raw values
\* seen in one of them.
AxisColumns(v) == {j \in 1..Len(v.headers) : ~IsPricey(v.headers[j])}

AllMmColumn(v, j) ==
    /\ v.items # <<>>
    /\ \A i \in 1..Len(v.items) : IsMm(Get(v.items[i], v.headers[j]))

AllMmSwatch(v) ==
    /\ v.options # <<>>
    /\ \A i \in 1..Len(v.options) : IsMm(v.options[i].name)

\* How often block number idx is among the source blocks of the axes
\* labelled label.
Contributions(idx, label) ==
    LET hits == UNION {{<<k, m>> : m \in {m \in 1..Len(axes[k].source_blocks) :
                                            axes[k].source_blocks[m] = idx}} :
                       k \in {k \in 1..Len(axes) : axes[k].label = label}}
    IN  Cardinality(hits)

HasOption(label, name) ==
    \E k \in 1..Len(axes) :
        axes[k].label = label /\ Contains(axes[k].options, name)

\* C2: a column that is not a price column, or a swatch block, whose values
\* are all of the form <number>mm (and that has a value) ends up in the axis
\* labelled Length, whatever its name: the block contributes to Length once
\* for each such column, and Length holds the column's values.
C2_AllMmIsLength ==
    Built =>
        \A b \in 1..Len(Blocks) :
            LET v == Blocks[b]
                mm == {j \in AxisColumns(v) : AllMmColumn(v, j)}
            IN  /\ v.type = "standard_variant" =>
                    /\ Contributions(b - 1, s_Length) >= Cardinality(mm)
                    /\ \A j \in mm : \A i \in 1..Len(v.items) :
                        HasOption(s_Length,
                                  Strip(Get(v.items[i], v.headers[j]).s))
                    /\ (Cardinality(AxisColumns(v)) = 1 /\ mm # {}) =>
                        \A k \in 1..Len(axes) :
                            Contains(axes[k].source_blocks, b - 1) =>
                                axes[k].label = s_Length
                /\ (v.type = "color_variant" /\ AllMmSwatch(v)) =>
                    /\ \A k \in 1..Len(axes) :
                        Contains(axes[k].source_blocks, b - 1) =>
                            axes[k].label = s_Length
                    /\ Contributions(b - 1, s_Length) = 1
                    /\ \A i \in 1..Len(v.options) :
                        HasOption(s_Length, Strip(v.options[i].name.s))

\* C2 happens: a column named Size and a swatch block named Crystal Color,
\* both of "mm" values, are the one axis Length.
C2_Witness ==
    /\ Built
    /\ Blocks = <<Tabular(<<Str(s_Size)>>, <<(s_Size :> Str(s_8mm))>>),
                  Swatch(Str(s_Crystal_Color),
                         <<Option(Str(s_10mm), None)>>)>>
    /\ Len(axes) = 1
    /\ axes[1].label = s_Length
    /\ axes[1].options = <<s_8mm, s_10mm>>

\* The cleaned values of a CZ Color column, or of a swatch block, in order.
ColorSource(v) ==
    IF v.type = "standard_variant"
    THEN [i \in 1..Len(v.items) |->
            _clean_option_name(Get(v.items[i], Str(s_CZ_Color)))]
    ELSE [i \in 1..Len(v.options) |-> _clean_option_name(v.options[i].name)]

\* A block that goes into Color: a table whose one column is CZ Color, or a
\* swatch block (named Crystal Color, or unnamed), its values not all "mm".
IsColorBlock(v) ==
    /\ \/ v.type = "standard_variant" /\ v.headers = <<Str(s_CZ_Color)>>
       \/ v.type = "color_variant"
    /\ \/ ColorSource(v) = <<>>
       \/ \E i \in 1..Len(ColorSource(v)) : ~_MM_RE(ColorSource(v)[i])

FirstIndex(list, x) ==
    CHOOSE i \in 1..Len(list) :
        list[i] = x /\ \A j \in 1..(i - 1) : list[j] # x

\* C3: a CZ Color column and a swatch block that both come out as Color, in
\* either order, make exactly one axis, Color, and its options are the
\* order-preserving union of the two sources: every value of either, once,
\* in the order of first appearance across the blocks.
C3_ColorMergeIsOrderedUnion ==
    (/\ Built
     /\ Len(Blocks) = 2
     /\ IsColorBlock(Blocks[1])
     /\ IsColorBlock(Blocks[2])
     /\ Blocks[1].type # Blocks[2].type) =>
        LET source == ColorSource(Blocks[1]) \o ColorSource(Blocks[2])
        IN  /\ Len(axes) = 1
            /\ axes[1].label = s_Color
            /\ NoRepeat(axes[1].options)
            /\ \A i \in 1..Len(source) : Contains(axes[1].options, source[i])
            /\ \A k \in 1..Len(axes[1].options) :
                Contains(source, axes[1].options[k])
            /\ \A k, m \in 1..Len(axes[1].options) :
                k < m => FirstIndex(source, axes[1].options[k])
                            < FirstIndex(source, axes[1].options[m])

\* C3 happens: the swatch block comes first, and its option comes first.
C3_Witness ==
    /\ Built
    /\ Blocks = <<Swatch(Str(s_Crystal_Color), <<Option(Str(s_Red), None)>>),
                  Tabular(<<Str(s_CZ_Color)>>, <<(s_CZ_Color :> Str(<<>>))>>)>>
    /\ Len(axes) = 1
    /\ axes[1].options = <<s_Red, s_Unspecified>>

PriorityLabels ==
    <<s_Length, s_Size, s_Gauge, s_Color, s_Packing_Option, s_Rack>>

IsPriorityLabel(label) == Contains(PriorityLabels, label)

\* C9: the axes come in the order Length, Size, Gauge, Color, Packing
\* Option, Rack; every other axis comes after all of those, the other axes
\* in alphabetical order of their labels (the order of Python's string
\* comparison: character by character, by code point).
C9_PriorityThenAlphabetical ==
    Built =>
        \A k, m \in 1..Len(axes) :
            k < m =>
                LET a == axes[k].label
                    b == axes[m].label
                IN  /\ IsPriorityLabel(b) => IsPriorityLabel(a)
                    /\ (IsPriorityLabel(a) /\ IsPriorityLabel(b)) =>
                        FirstIndex(PriorityLabels, a)
                            < FirstIndex(PriorityLabels, b)
                    /\ (~IsPriorityLabel(a) /\ ~IsPriorityLabel(b)) =>
                        StrLess(a, b)

\* C9 happens: a table with the columns Zinc, color, alloy, Size.
C9_Witness ==
    /\ Built
    /\ Len(Blocks) = 1
    /\ Blocks[1].headers = <<Str(s_Zinc), Str(s_color_padded), Str(s_alloy),
                             Str(s_Size)>>
    /\ [k \in 1..Len(axes) |-> axes[k].label]
            = <<s_Size, s_Color, s_Zinc, s_alloy>>

(***************************************************************************)
(* compute_price_info: what SpecPrice is checked for.                      *)
(***************************************************************************)

Priced == last = "compute_price_info"

\* A block the resolver reads: a table with a column that is no price column.
Qualifying(v) == v.type = "standard_variant" /\ AxisColumns(v) # {}

\* The price fields a row carries: a numeric Price, a string Price / pc.
FieldsOn(row) ==
    {f \in {s_Price, s_Price_pc} \cap DOMAIN row :
        row[f].kind = (IF f = s_Price THEN "num" ELSE "str")}

\* The qualifying blocks whose first row carries field f.
FirstRowSuppliers(f) ==
    {k \in 1..Len(Blocks) :
        /\ Qualifying(Blocks[k])
        /\ Blocks[k].items # <<>>
        /\ f \in FieldsOn(Blocks[k].items[1])}

Last(K) == CHOOSE k \in K : \A m \in K : m <= k

First(K) == CHOOSE k \in K : \A m \in K : k <= m

\* C6 as stated: with an empty selection the result holds, for each table
\* that has a column other than the price columns, the price fields of that
\* table's first row, each with the first row's value.
C6_FirstRowOfEveryBlock ==
    (Priced /\ selections = EmptyDict) =>
        \A k \in 1..Len(Blocks) :
            (Qualifying(Blocks[k]) /\ Blocks[k].items # <<>>) =>
                \A f \in FieldsOn(Blocks[k].items[1]) :
                    /\ f \in DOMAIN price_info
                    /\ price_info[f] = Blocks[k].items[1][f]

\* C6 as amended: with an empty selection the result has exactly the price
\* fields (numeric Price, string Price / pc) found on the first rows of the
\* tables that have a column other than the price columns, and where several
\* such tables carry the same field, the value of the last of them.
C6_EmptySelectionFirstRows ==
    (Priced /\ selections = EmptyDict) =>
        /\ DOMAIN price_info =
               {f \in {s_Price, s_Price_pc} : FirstRowSuppliers(f) # {}}
        /\ \A f \in DOMAIN price_info :
               price_info[f] =
                   Blocks[Last(FirstRowSuppliers(f))].items[1][f]

\* C6's case: an empty selection on a table of two rows with different
\* prices, and the first row's fields are the result.
C6_Witness ==
    /\ Priced
    /\ selections = EmptyDict
    /\ Len(Blocks) = 1
    /\ Qualifying(Blocks[1])
    /\ Len(Blocks[1].items) = 2
    /\ FieldsOn(Blocks[1].items[1]) = {s_Price, s_Price_pc}
    /\ FieldsOn(Blocks[1].items[2]) = {s_Price}
    /\ price_info = [f \in {s_Price, s_Price_pc} |-> Blocks[1].items[1][f]]
    /\ price_info[s_Price] # Blocks[1].items[2][s_Price]

\* Lines 248-256, read off the table: the rows of v left when, for every
\* column that is no price column and whose label the selection names, the
\* rows holding another value than the selected one are taken away.
MatchRows(v, sel) ==
    1..Len(v.items) \
        UNION {LET label == normalize_axis_label(v.headers[j], <<>>)
               IN  IF label \in DOMAIN sel
                   THEN {i \in 1..Len(v.items) :
                            _clean_option_name(Get(v.items[i], v.headers[j]))
                                # sel[label]}
                   ELSE {} :
               j \in AxisColumns(v)}

\* The pairs <<k, i>> of a block that is read and has a matching row, and
\* the number of its first matching row.
FirstMatches(sel) ==
    UNION {LET rows == IF Qualifying(Blocks[k])
                       THEN MatchRows(Blocks[k], sel)
                       ELSE {}
           IN  IF rows = {} THEN {} ELSE {<<k, First(rows)>>} :
           k \in 1..Len(Blocks)}

\* The pairs of hits whose row carries field f; hits is FirstMatches.
Suppliers(hits, f) ==
    {h \in hits : f \in FieldsOn(Blocks[h[1]].items[h[2]])}

\* The value of field f on the row of the earliest, or the last, block of
\* the pairs K.
Earliest(K, f) ==
    LET h == CHOOSE h \in K : \A g \in K : h[1] <= g[1]
    IN  Blocks[h[1]].items[h[2]][f]

Latest(K, f) ==
    LET h == CHOOSE h \in K : \A g \in K : g[1] <= h[1]
    IN  Blocks[h[1]].items[h[2]][f]

\* C7 as stated: a field of the result has the value of the earliest block
\* whose matching row carries it; a later block adds only the fields no
\* earlier block supplied.
C7_EarlierBlockKept ==
    Priced =>
        LET hits == FirstMatches(selections)
        IN  \A f \in DOMAIN price_info :
                /\ Suppliers(hits, f) # {}
                /\ price_info[f] = Earliest(Suppliers(hits, f), f)

\* C7 as amended: a later block's matching row writes its price fields over
\* those an earlier block set; a field of the result has the value of the
\* last block whose matching row carries it, and a field only an earlier
\* block carries is kept.
C7_LaterBlockOverwrites ==
    Priced =>
        LET hits == FirstMatches(selections)
        IN  /\ DOMAIN price_info =
                   {f \in {s_Price, s_Price_pc} : Suppliers(hits, f) # {}}
            /\ \A f \in DOMAIN price_info :
                   price_info[f] = Latest(Suppliers(hits, f), f)

\* C7's case: two tables with a matching row each; both carry Price with
\* different values, the first alone carries Price / pc.
C7_Witness ==
    /\ Priced
    /\ LET hits == FirstMatches(selections)
       IN  /\ {h[1] : h \in Suppliers(hits, s_Price)} = {1, 2}
           /\ {h[1] : h \in Suppliers(hits, s_Price_pc)} = {1}
           /\ Earliest(Suppliers(hits, s_Price), s_Price)
                  # Latest(Suppliers(hits, s_Price), s_Price)
           /\ price_info[s_Price] = Latest(Suppliers(hits, s_Price), s_Price)
           /\ price_info[s_Price_pc]
                  = Earliest(Suppliers(hits, s_Price_pc), s_Price_pc)

\* The dict d with the entry of key dropped.
Without(d, key) == [k \in DOMAIN d \ {key} |-> d[k]]

\* The entry (label, option) names an option of an axis of the product.
InAxes(label, option) ==
    LET axs == build_variant_axes(products[1])
    IN  \E k \in 1..Len(axs) :
            axs[k].label = label /\ Contains(axs[k].options, option)

\* C8 as stated: an entry of the selection whose axis label, or whose option
\* value, is not in the product's axes is no constraint: the result is that
\* of the selection without the entry.
C8_AbsentEntryIsNoConstraint ==
    Priced =>
        \A label \in DOMAIN selections :
            ~InAxes(label, selections[label]) =>
                price_info =
                    compute_price_info(products[1],
                                       Without(selections, label))

\* The labels the resolver looks the selection up under: those of the
\* columns, other than price columns, of the tables, from the header alone.
ResolverLabels ==
    UNION {{normalize_axis_label(Blocks[k].headers[j], <<>>) :
                j \in AxisColumns(Blocks[k])} :
           k \in {k \in 1..Len(Blocks) : Qualifying(Blocks[k])}}

\* Table k has a column the selection names with a value none of its rows
\* holds.
Starved(k) ==
    /\ Qualifying(Blocks[k])
    /\ \E j \in AxisColumns(Blocks[k]) :
        LET label == normalize_axis_label(Blocks[k].headers[j], <<>>)
        IN  /\ label \in DOMAIN selections
            /\ \A i \in 1..Len(Blocks[k].items) :
                _clean_option_name(Get(Blocks[k].items[i],
                                       Blocks[k].headers[j]))
                    # selections[label]

\* The product with block k left out.
ProductWithout(k) ==
    [products[1] EXCEPT
        !.variants = SubSeq(Blocks, 1, k - 1)
                     \o SubSeq(Blocks, k + 1, Len(Blocks))]

\* C8 as amended: an entry whose label is the normalised header of no
\* column (other than price columns) of the product's tables is no
\* constraint, the result being that of the selection without the entry; an
\* entry whose label is such a header and whose value no row of a table
\* holds lets that table contribute nothing.
C8_UnknownLabelIsNoConstraint ==
    (Priced /\ selections # EmptyDict) =>
        /\ LET known == ResolverLabels
           IN  \A label \in DOMAIN selections \ known :
                   price_info =
                       compute_price_info(products[1],
                                          Without(selections, label))
        /\ \A k \in 1..Len(Blocks) :
               Starved(k) =>
                   price_info =
                       compute_price_info(ProductWithout(k), selections)

\* C8's case: the selection names a label no table has and, for a table
\* whose rows carry a price, a value none of its rows holds; the price is
\* that of the other table.
C8_Witness ==
    /\ Priced
    /\ \E label \in DOMAIN selections : label \notin ResolverLabels
    /\ \E k \in 1..Len(Blocks) :
        /\ Starved(k)
        /\ \A i \in 1..Len(Blocks[k].items) :
               FieldsOn(Blocks[k].items[i]) # {}
    /\ price_info # EmptyDict

(***************************************************************************)
(* The wishlist and the product page: what Spec is checked for.            *)
(***************************************************************************)

\* Two entries of the wishlist are of one (sku, selection) combination.
SameCombination(a, b) == a.sku = b.sku /\ a.selections = b.selections

ItemFields ==
    {"sku", "title", "main_image", "url", "selections", "variant_image",
     "price_info"}

ColumnAxis(v, j) ==
    normalize_axis_label(
        v.headers[j],
        ScanColumn(v.items, v.headers[j], 1,
                   [options_order |-> <<>>,
                    image_map |-> EmptyDict]).options_order)

\* C10: on the product page, where the selection has one option of every
\* axis, each price field shown comes from a row of a table whose every
\* column other than the price columns holds the option selected for the
\* axis the column was merged into.
C10_PriceFromTheSelectedRow ==
    page = "product" =>
        \A f \in DOMAIN price_info :
            \E v \in {ProductOf(selected_sku).variants[k] :
                        k \in 1..Len(ProductOf(selected_sku).variants)} :
                /\ v.type = "standard_variant"
                /\ \E i \in 1..Len(v.items) :
                    /\ f \in FieldsOn(v.items[i])
                    /\ v.items[i][f] = price_info[f]
                    /\ \A j \in AxisColumns(v) :
                        /\ ColumnAxis(v, j) \in DOMAIN selections
                        /\ _clean_option_name(Get(v.items[i], v.headers[j]))
                               = selections[ColumnAxis(v, j)]

\* C11: a remove at position i (counted from 0) shortens the wishlist by
\* one, the entries before i stay where they were and those after i move up
\* by one, each with its contents unchanged; and on every page that has the
\* header, the count on its Wishlist button is the number of adds minus the
\* number of removes.
C11_RemoveDeletesExactlyThatEntry ==
    [][/\ last' = "remove" =>
            /\ clicked' \in 0..(Len(wishlist) - 1)
            /\ Len(wishlist') = Len(wishlist) - 1
            /\ \A j \in 1..Len(wishlist') :
                   wishlist'[j] =
                       wishlist[IF j <= clicked' THEN j ELSE j + 1]
       /\ page' # "login" => nav_count' = adds' - removes']_vars

\* C11's case: after three adds the first of three entries has been
\* removed; two different entries are left and the header shows 2.
C11_Witness ==
    /\ last = "remove"
    /\ clicked = 0
    /\ adds = 3
    /\ removes = 1
    /\ Len(wishlist) = 2
    /\ wishlist[1] # wishlist[2]
    /\ nav_count = 2

====
